---- MODULE Spec2Model ----
(***************************************************************************)
(* Model of rbc/omnisci_backend/omnisci_buffer.py: the Omnisci buffer      *)
(* layout, the constructor with its per-builder allocation registry        *)
(* (builder_buffers), the exit drain (free_omnisci_buffer), the indexed    *)
(* accessors with their store coercion (truncate_or_extend) and the two    *)
(* null notions (flag field, sentinel element).                            *)
(*                                                                         *)
(* Integer values are bit patterns: a value of an integer type of width w  *)
(* is a natural in 0 .. 2^w - 1, read as signed where the code compares    *)
(* signed.  Widths 8 and 16 stand for the widths 8 .. 64 of the code: the  *)
(* code looks at widths only through <, > and 2^w.                         *)
(* A registry entry is the value ptr8 returned by one allocate call; two   *)
(* allocations that are both live never share an address, so each call     *)
(* yields a fresh address.                                                 *)
(***************************************************************************)
EXTENDS Integers, Sequences, FiniteSets, TLC

VARIABLES builder_buffers, next_ptr, free_calls, bufs, mem, ndrains, ret_val, emitted, last,
          pc, derived

vars == <<builder_buffers, next_ptr, free_calls, bufs, mem, ndrains, ret_val, emitted, last,
          pc, derived>>

(***************************************************************************)
(* Bounds of the model.                                                    *)
(***************************************************************************)
NumBuilders == 2
MaxBuffers == 3
MaxCount == 2
MaxDrains == 2
MaxArity == 2

Builders == 1 .. NumBuilders

(***************************************************************************)
(* Element types (numba scalar types) by name.                             *)
(***************************************************************************)
IntTypes == {"int8", "int16", "uint8", "uint16"}
FloatTypes == {"float32", "float64"}
BoolTypes == {"boolean1", "boolean8"}

Kind(T) == IF T \in IntTypes THEN "Integer"
           ELSE IF T \in FloatTypes THEN "Float" ELSE "Boolean"

\* numba's bitwidth of a type; for Boolean, the width of its LLVM value type
bitwidth(T) == CASE T \in {"int8", "uint8", "boolean8"} -> 8
                 [] T \in {"int16", "uint16"} -> 16
                 [] T = "float32" -> 32
                 [] T = "float64" -> 64
                 [] T = "boolean1" -> 1

signed(T) == T \in {"int8", "int16"}

(***************************************************************************)
(* LLVM integer casts on bit patterns, and the signed reading of a pattern *)
(***************************************************************************)
trunc(value, w2) == value % (2 ^ w2)

zext(value, w1, w2) == value

sext(value, w1, w2) == IF value >= 2 ^ (w1 - 1)
                       THEN value + (2 ^ w2 - 2 ^ w1)
                       ELSE value

AsSigned(value, w) == IF value >= 2 ^ (w - 1) THEN value - 2 ^ w ELSE value

(***************************************************************************)
(* OmnisciBufferType.tonumba: the layout of a buffer type.  self is        *)
(* [element_type, buffer_extra_members, pass_by_value]; an extra member is *)
(* a declaration [ty, name].  A member of the layout is [name, ty,         *)
(* pointee].                                                               *)
(***************************************************************************)
FromObject(decl) == [name |-> decl.name,
                     ty |-> IF decl.ty = "bool" THEN "int8" ELSE decl.ty,
                     pointee |-> "none"]

\* the extra members come first
Members_ExtraFirst(self) ==
    LET ptr_t == [name |-> "ptr", ty |-> "pointer", pointee |-> self.element_type]
        size_t == [name |-> "sz", ty |-> "size_t", pointee |-> "none"]
        extra_members == [i \in 1 .. Len(self.buffer_extra_members) |->
                             FromObject(self.buffer_extra_members[i])]
    IN  extra_members \o <<ptr_t, size_t>>

Members(self) ==
    LET ptr_t == [name |-> "ptr", ty |-> "pointer", pointee |-> self.element_type]
        size_t == [name |-> "sz", ty |-> "size_t", pointee |-> "none"]
        extra_members == [i \in 1 .. Len(self.buffer_extra_members) |->
                             FromObject(self.buffer_extra_members[i])]
    IN  <<ptr_t, size_t>> \o extra_members

tonumba(self) ==
    [cls |-> IF self.pass_by_value THEN "BufferType" ELSE "BufferPointer",
     members |-> Members(self),
     eltype |-> self.element_type]

\* struct proxy attribute access: the position of the member named name
FieldOf(members, name) == CHOOSE i \in 1 .. Len(members) : members[i].name = name

HasField(members, name) == \E i \in 1 .. Len(members) : members[i].name = name

(***************************************************************************)
(* builder_buffers = defaultdict(list): reading a missing key yields []    *)
(***************************************************************************)
BufList(reg, builder) == IF builder \in DOMAIN reg THEN reg[builder] ELSE <<>>

\* one key for every builder (a registry keyed by something the builders
\* share)
Put_SharedKey(reg, builder, lst) ==
    [b \in DOMAIN reg \cup {1} |-> IF b = 1 THEN lst ELSE reg[b]]

\* assigns a list of the newest entry alone instead of keeping the list
Put_Overwrite(reg, builder, lst) ==
    [b \in DOMAIN reg \cup {builder} |->
        IF b = builder
        THEN (IF lst = << >> THEN << >> ELSE <<lst[Len(lst)]>>)
        ELSE reg[b]]

Put(reg, builder, lst) ==
    [b \in DOMAIN reg \cup {builder} |-> IF b = builder THEN lst ELSE reg[b]]

Del(reg, builder) == [b \in DOMAIN reg \ {builder} |-> reg[b]]

Uninit == -1

\* ret_val[builder] and emitted[builder] are the argument ret and the number
\* of calls of free of the drain of builder that is being lowered, or was
\* lowered last; NoRet when there is none
NoRet == [cls |-> "none", ptr |-> 0]

NoLast == [op |-> "init", builder |-> 0, buf |-> 0, index |-> -1,
           nb_value |-> "none", value |-> 0, res |-> 0, variant |-> "none"]

\* derived is the outcome of the last creation of a buffer type from its
\* arguments: the arguments, the normalised arguments of the created type,
\* its extra members and pass_by_value, the error raised ("none" if none) and
\* the layouts derived from the type (none or one)
NoType == [args |-> << >>, type |-> << >>, extra |-> << >>, pbv |-> FALSE,
           error |-> "init", layout |-> << >>]

Init ==
    /\ builder_buffers = << >>
    /\ next_ptr = 1
    /\ free_calls = [p \in {} |-> 0]
    /\ bufs = << >>
    /\ mem = << >>
    /\ ndrains = [b \in Builders |-> 0]
    /\ ret_val = [b \in Builders |-> NoRet]
    /\ emitted = [b \in Builders |-> 0]
    /\ last = NoLast
    /\ pc = [b \in Builders |-> "body"]
    /\ derived = NoType

(***************************************************************************)
(* omnisci_buffer_constructor                                              *)
(***************************************************************************)
\* the Python variable is_null after the two "with" bodies of if_else have
\* run at code-generation time: both bodies run, in source order
NullFlagValue(element_count) ==
    LET is_zero == (element_count = 0)
        after_then == 1
        after_orelse == 0
    IN  after_orelse

\* the third member of the layout, if there is one
null_type(members) == IF Len(members) > 2 THEN <<members[3]>> ELSE << >>

\* the struct after the assignments of fa.ptr, fa.sz and, for a layout with
\* a third member, fa.is_null
ConstructedStruct(members, ptr, element_count) ==
    [i \in 1 .. Len(members) |->
        IF i = FieldOf(members, "ptr") THEN ptr
        ELSE IF i = FieldOf(members, "sz") THEN element_count
        ELSE IF null_type(members) /= << >> /\ i = FieldOf(members, "is_null")
             THEN NullFlagValue(element_count)
        ELSE Uninit]

\* the constructor raises AttributeError at sig.return_type.dtype for a return
\* type that is not a BufferPointer (a BufferType has no dtype) and
\* AssertionError for a layout of more than three members, before it emits
\* anything, and KeyError at fa.is_null for a third member of another name,
\* after the allocation was emitted and recorded
omnisci_buffer_constructor(builder, self, count) ==
    LET return_type == tonumba(self)
        members == return_type.members
        element_count == zext(count, 32, 64)
        ptr8 == next_ptr
    IN  /\ Len(bufs) < MaxBuffers
        /\ \/ /\ return_type.cls /= "BufferPointer"
              /\ last' = [NoLast EXCEPT !.op = "construct", !.variant = "AttributeError"]
              /\ UNCHANGED <<builder_buffers, next_ptr, bufs, mem>>
           \/ /\ return_type.cls = "BufferPointer"
              /\ Len(members) > 3
              /\ last' = [NoLast EXCEPT !.op = "construct", !.variant = "AssertionError"]
              /\ UNCHANGED <<builder_buffers, next_ptr, bufs, mem>>
           \/ /\ return_type.cls = "BufferPointer"
              /\ Len(members) <= 3
              /\ next_ptr' = next_ptr + 1
              /\ builder_buffers' = Put(builder_buffers, builder,
                                        Append(BufList(builder_buffers, builder), ptr8))
              /\ mem' = [p \in DOMAIN mem \cup {ptr8} |->
                            IF p = ptr8 THEN [i \in 1 .. element_count |-> Uninit]
                            ELSE mem[p]]
              /\ IF null_type(members) /= << >> /\ ~HasField(members, "is_null")
                 THEN /\ bufs' = bufs
                      /\ last' = [NoLast EXCEPT !.op = "construct",
                                                !.variant = "KeyError"]
                 ELSE /\ bufs' = Append(bufs,
                                    [builder |-> builder, self |-> self,
                                     type |-> return_type, count |-> count,
                                     fields |-> ConstructedStruct(members, ptr8,
                                                                  element_count)])
                      /\ last' = last
        /\ UNCHANGED <<free_calls, ndrains, ret_val, emitted, pc, derived>>

(***************************************************************************)
(* free_omnisci_buffer: the exit drain.  ret is the returned value:        *)
(* [cls, ptr] with cls the class of its numba type and ptr the payload     *)
(* address in field 0 of the returned struct (0 for a non-buffer).         *)
(***************************************************************************)
\* free_calls counts, per address, the calls of free the generated code makes
Count(calls, p) == Cardinality({i \in 1 .. Len(calls) : calls[i] = p})

Called(log, calls) ==
    [p \in DOMAIN log \cup {calls[i] : i \in 1 .. Len(calls)} |->
        (IF p \in DOMAIN log THEN log[p] ELSE 0) + Count(calls, p)]

Skip(buffers, ptr) == SelectSeq(buffers, LAMBDA ptr8 : ptr /= ptr8)

\* a drain that never skips the returned payload
ReleaseCalls_NoSkip(buffers, ret) == buffers

\* a drain without its else branch: nothing is released unless a buffer
\* is returned
ReleaseCalls_NoElse(buffers, ret) ==
    IF ret.cls = "BufferPointer" THEN Skip(buffers, ret.ptr) ELSE << >>

ReleaseCalls(buffers, ret) ==
    IF ret.cls = "BufferPointer" THEN Skip(buffers, ret.ptr) ELSE buffers

\* a drain that forgets "del builder_buffers[builder]"
RegistryAfterDrain_NoDel(reg, builder) == Put(reg, builder, BufList(reg, builder))

RegistryAfterDrain(reg, builder) == Del(Put(reg, builder, BufList(reg, builder)), builder)

\* the drains lowered so far, over all builders, those in progress included
RECURSIVE DrainsTo(_)
DrainsTo(n) ==
    IF n = 0 THEN 0
    ELSE DrainsTo(n - 1) + ndrains[n] + (IF pc[n] = "body" THEN 0 ELSE 1)

free_omnisci_buffer(builder, ret) ==
    LET buffers == BufList(builder_buffers, builder)
    IN  /\ DrainsTo(NumBuilders) < MaxDrains
        /\ free_calls' = Called(free_calls, ReleaseCalls(buffers, ret))
        /\ builder_buffers' = RegistryAfterDrain(builder_buffers, builder)
        /\ ndrains' = [ndrains EXCEPT ![builder] = @ + 1]
        /\ ret_val' = [b \in Builders |-> IF b = builder THEN ret ELSE NoRet]
        /\ emitted' = [b \in Builders |->
                          IF b = builder THEN Len(ReleaseCalls(buffers, ret)) ELSE 0]
        /\ UNCHANGED <<next_ptr, bufs, mem, last, pc, derived>>

(***************************************************************************)
(* free_buffer: the explicit free of one buffer (imported by               *)
(* tests/test_compiler_pipeline.py; its body is not part of the sources).  *)
(* It releases the payload and removes its address from the builder's list *)
(***************************************************************************)
free_buffer(builder, k) ==
    LET ptr == bufs[k].fields[1]
        buffers == BufList(builder_buffers, builder)
    IN  /\ bufs[k].builder = builder
        /\ \E i \in 1 .. Len(buffers) : buffers[i] = ptr
        /\ free_calls' = Called(free_calls, <<ptr>>)
        /\ builder_buffers' = Put(builder_buffers, builder, Skip(buffers, ptr))
        /\ UNCHANGED <<next_ptr, bufs, mem, ndrains, ret_val, emitted, last, pc, derived>>

(***************************************************************************)
(* Tracker specification: constructions, explicit frees and drains of the  *)
(* builders, interleaved.                                                  *)
(***************************************************************************)
ArrayOf(T) == [element_type |-> T,
               buffer_extra_members |-> <<[ty |-> "bool", name |-> "is_null"]>>,
               pass_by_value |-> FALSE]

ColumnOf(T) == [element_type |-> T,
                buffer_extra_members |-> << >>,
                pass_by_value |-> FALSE]

\* the values a function of builder can return: a non-buffer, one of its
\* buffers (the constructor returns a pointer to the struct, so a constructed
\* buffer is a BufferPointer), an argument buffer
Returns(builder) ==
    {[cls |-> "Integer", ptr |-> 0]}
    \cup {[cls |-> "BufferPointer", ptr |-> bufs[k].fields[1]] :
             k \in {j \in 1 .. Len(bufs) : bufs[j].builder = builder}}
    \cup {[cls |-> "BufferPointer", ptr |-> 0]}

\* the buffer type with pass_by_value set
ByValue(self) == [self EXCEPT !.pass_by_value = TRUE]

Construct == \E builder \in Builders, count \in 1 .. 1 :
                \E self \in {ArrayOf("int8"), ByValue(ArrayOf("int8"))} :
                   omnisci_buffer_constructor(builder, self, count)

Free == \E builder \in Builders, k \in 1 .. Len(bufs) : free_buffer(builder, k)

Drain == \E builder \in Builders : \E ret \in Returns(builder) :
            free_omnisci_buffer(builder, ret)

Next == Construct \/ Free \/ Drain

Spec == Init /\ [][Next]_vars

(***************************************************************************)
(* Properties of the tracker                                               *)
(***************************************************************************)
CallsIn(log, p) == IF p \in DOMAIN log THEN log[p] ELSE 0

Recorded(reg, b) == {BufList(reg, b)[i] : i \in 1 .. Len(BufList(reg, b))}

Allocated == 1 .. (next_ptr - 1)

BuffersOf(b) == {k \in 1 .. Len(bufs) : bufs[k].builder = b}

IsDrainStep(b) == ndrains'[b] = ndrains[b] + 1

\* C1 (tracker exclusion): a drain of builder b whose returned value is a
\* buffer pointer with payload r releases each recorded address other than r
\* exactly once and r not at all, and leaves the registry without an entry
\* for b; a drain of a builder that has nothing recorded (a second drain, or
\* a builder that never constructed) releases nothing and leaves no entry.
C1_TrackerExclusion ==
    [][\A b \in Builders : IsDrainStep(b) =>
          /\ b \notin DOMAIN builder_buffers'
          /\ ret_val'[b].cls = "BufferPointer" =>
                \A p \in Allocated :
                    CallsIn(free_calls', p) = CallsIn(free_calls, p)
                        + (IF p \in Recorded(builder_buffers, b) /\ p /= ret_val'[b].ptr
                           THEN 1 ELSE 0)
          /\ Recorded(builder_buffers, b) = {} => free_calls' = free_calls]_vars

\* builder b recorded a < m < c, returned m by reference and was drained
\* twice: a and c were released once, m never, the second drain emitted
\* nothing and b has no entry
C1_Witness ==
    \E b \in Builders : \E a, m, c \in BuffersOf(b) :
        /\ a < m /\ m < c
        /\ ndrains[b] = 2
        /\ emitted[b] = 0
        /\ ret_val[b] = [cls |-> "BufferPointer", ptr |-> bufs[m].fields[1]]
        /\ CallsIn(free_calls, bufs[a].fields[1]) = 1
        /\ CallsIn(free_calls, bufs[c].fields[1]) = 1
        /\ CallsIn(free_calls, bufs[m].fields[1]) = 0
        /\ b \notin DOMAIN builder_buffers

\* C2 (no double release): every allocated address is released at most once
\* over explicit frees and drains together, and an address that has been
\* released is in no builder's list any more.
C2_NoDoubleRelease ==
    \A p \in Allocated :
        /\ CallsIn(free_calls, p) <= 1
        /\ CallsIn(free_calls, p) = 1 =>
              \A b \in Builders : p \notin Recorded(builder_buffers, b)

\* builder b freed one of its two buffers explicitly and was then drained
\* once, returning a non-buffer: the drain emitted one call only, and both
\* addresses have been released once
C2_Witness ==
    \E b \in Builders :
        /\ Cardinality(BuffersOf(b)) = 2
        /\ ndrains[b] = 1
        /\ ret_val[b].cls = "Integer"
        /\ emitted[b] = 1
        /\ \A k \in BuffersOf(b) : CallsIn(free_calls, bufs[k].fields[1]) = 1

fpext(value) == 4 * value

fptrunc(value) ==
    LET q == value \div 4
        r == value % 4
    IN  IF r < 2 THEN q
        ELSE IF r > 2 THEN q + 1
        ELSE IF q % 2 = 0 THEN q ELSE q + 1

Samples(T) == CASE T \in {"int8", "uint8", "boolean8"} -> {0, 1, 127, 128, 129, 255}
                [] T \in {"int16", "uint16"} -> {0, 1, 255, 256, 32767, 32768, 32769, 65535}
                [] T = "boolean1" -> {0, 1}
                [] T = "float32" -> {0, 1, 15}
                [] T = "float64" -> {0, 1, 2, 3, 6, 60}

ElementTypes == IntTypes \cup FloatTypes \cup {"boolean8"}

ValueTypes == IntTypes \cup FloatTypes \cup BoolTypes

\* whether the LLVM types of a value and of an element are of one family, so
\* that the store that follows truncate_or_extend is well typed
SameFamily(nb_value, eltype) == (nb_value \in FloatTypes) = (eltype \in FloatTypes)

(***************************************************************************)
(* truncate_or_extend(builder, nb_value, eltype, value, buf_typ)           *)
(***************************************************************************)
\* extends by the signedness of the destination instead of the source
truncate_or_extend_DestSign(nb_value, eltype, value, buf_typ) ==
    IF Kind(nb_value) = "Integer"
    THEN IF bitwidth(eltype) < bitwidth(nb_value)
         THEN trunc(value, bitwidth(buf_typ))
         ELSE IF bitwidth(eltype) > bitwidth(nb_value)
              THEN IF signed(eltype)
                   THEN sext(value, bitwidth(nb_value), bitwidth(buf_typ))
                   ELSE zext(value, bitwidth(nb_value), bitwidth(buf_typ))
              ELSE value
    ELSE IF Kind(nb_value) = "Float"
    THEN IF bitwidth(eltype) < bitwidth(nb_value) THEN fptrunc(value)
         ELSE IF bitwidth(eltype) > bitwidth(nb_value) THEN fpext(value)
         ELSE value
    ELSE IF bitwidth(buf_typ) > bitwidth(nb_value)
         THEN zext(value, bitwidth(nb_value), bitwidth(buf_typ))
         ELSE value

truncate_or_extend(nb_value, eltype, value, buf_typ) ==
    IF Kind(nb_value) = "Integer"
    THEN IF bitwidth(eltype) < bitwidth(nb_value)
         THEN trunc(value, bitwidth(buf_typ))
         ELSE IF bitwidth(eltype) > bitwidth(nb_value)
              THEN LET is_signed == signed(nb_value)
                   IN  IF is_signed
                       THEN sext(value, bitwidth(nb_value), bitwidth(buf_typ))
                       ELSE zext(value, bitwidth(nb_value), bitwidth(buf_typ))
              ELSE value
    ELSE IF Kind(nb_value) = "Float"
    THEN IF bitwidth(eltype) < bitwidth(nb_value) THEN fptrunc(value)
         ELSE IF bitwidth(eltype) > bitwidth(nb_value) THEN fpext(value)
         ELSE value
    ELSE IF Kind(nb_value) = "Boolean"
    THEN IF bitwidth(buf_typ) < bitwidth(nb_value) THEN trunc(value, bitwidth(buf_typ))
         ELSE IF bitwidth(buf_typ) > bitwidth(nb_value)
              THEN zext(value, bitwidth(nb_value), bitwidth(buf_typ))
              ELSE value
    ELSE value

(***************************************************************************)
(* The accessors.  A buffer is bufs[k]; Gep(struct, i) is field i of the   *)
(* struct (gep [0, i]); x is the class of the numba type of the value the  *)
(* operation is applied to: the pointer to the struct (BufferPointer) or   *)
(* the load of it (BufferType), whose operand is the same struct.          *)
(* Indices are in range: the accessors check no bounds and an index out of *)
(* range is outside what the generated code defines.                       *)
(***************************************************************************)
Gep(struct, i) == struct[i + 1]

StoreField(struct, i, v) == [struct EXCEPT ![i + 1] = v]

omnisci_buffer_ptr_len_(k) == Gep(bufs[k].fields, 1)

omnisci_buffer_len_(k) == Gep(bufs[k].fields, 1)

omnisci_buffer_len(x, k) ==
    IF x = "BufferPointer" THEN omnisci_buffer_ptr_len_(k)
    ELSE omnisci_buffer_len_(k)

\* the element at index of the payload of buffer k
omnisci_buffer_ptr_getitem_(k, index) == mem[Gep(bufs[k].fields, 0)][index + 1]

omnisci_buffer_getitem_(k, index) == mem[Gep(bufs[k].fields, 0)][index + 1]

omnisci_buffer_getitem(x, k, index) ==
    IF x = "BufferPointer" THEN omnisci_buffer_ptr_getitem_(k, index)
    ELSE omnisci_buffer_getitem_(k, index)

\* the payload memory after the store of setitem
omnisci_buffer_ptr_setitem_(k, index, nb_value, value) ==
    LET eltype == bufs[k].type.eltype
        buf == Gep(bufs[k].fields, 0)
        buf_typ == bufs[k].type.members[1].pointee
        coerced == truncate_or_extend(nb_value, eltype, value, buf_typ)
    IN  [mem EXCEPT ![buf][index + 1] = coerced]

\* stores the value as it comes, without the coercion
omnisci_buffer_setitem_NoCoerce(k, index, nb_value, value) ==
    [mem EXCEPT ![Gep(bufs[k].fields, 0)][index + 1] = value]

omnisci_buffer_setitem_(k, index, nb_value, value) ==
    LET eltype == bufs[k].type.members[1].pointee
        ptr == Gep(bufs[k].fields, 0)
        buf_typ == bufs[k].type.members[1].pointee
        coerced == truncate_or_extend(nb_value, eltype, value, buf_typ)
    IN  [mem EXCEPT ![ptr][index + 1] = coerced]

omnisci_buffer_setitem(x, k, index, nb_value, value) ==
    IF x = "BufferPointer" THEN omnisci_buffer_ptr_setitem_(k, index, nb_value, value)
    ELSE omnisci_buffer_setitem_(k, index, nb_value, value)

Indices(k) == 0 .. (Gep(bufs[k].fields, 1) - 1)

AddressingModes == {"BufferPointer", "BufferType"}

LenOp(x, k) ==
    /\ last' = [NoLast EXCEPT !.op = "len", !.buf = k, !.variant = x,
                              !.res = omnisci_buffer_len(x, k)]
    /\ UNCHANGED <<builder_buffers, next_ptr, free_calls, bufs, mem, ndrains,
                   ret_val, emitted, pc, derived>>

\* the load of an element that was never stored yields any pattern
GetItemOp(x, k, index) ==
    LET res == omnisci_buffer_getitem(x, k, index)
    IN  /\ index \in Indices(k)
        /\ \E seen \in (IF res = Uninit THEN Samples(bufs[k].type.eltype) ELSE {res}) :
              last' = [NoLast EXCEPT !.op = "getitem", !.buf = k, !.variant = x,
                                     !.index = index, !.res = seen]
        /\ UNCHANGED <<builder_buffers, next_ptr, free_calls, bufs, mem, ndrains,
                       ret_val, emitted, pc, derived>>

SetItemOp(x, k, index, nb_value, value) ==
    /\ index \in Indices(k)
    /\ SameFamily(nb_value, bufs[k].type.eltype)
    /\ mem' = omnisci_buffer_setitem(x, k, index, nb_value, value)
    /\ last' = [NoLast EXCEPT !.op = "setitem", !.buf = k, !.variant = x,
                              !.index = index, !.nb_value = nb_value, !.value = value]
    /\ UNCHANGED <<builder_buffers, next_ptr, free_calls, bufs, ndrains, ret_val, emitted, pc, derived>>

(***************************************************************************)
(* Null values.  null_values is the table TargetInfo().null_values gives   *)
(* for the key Array<T>: unsigned bit patterns sent by the server.         *)
(***************************************************************************)
NullableTypes == {"int8", "int16", "float32", "float64"}

null_values(T) == CASE T = "int8" -> 129
                    [] T = "int16" -> 32769
                    [] T = "float32" -> 1
                    [] T = "float64" -> 3

\* every pattern of the model is below 2^16
Mod2(v, w) == IF w > 16 THEN v ELSE v % (2 ^ w)

\* np.uint64(null_value).astype(str(T)): the value of type T with these bits
AsType(null_value, T) ==
    IF signed(T) THEN AsSigned(Mod2(null_value, bitwidth(T)), bitwidth(T))
    ELSE Mod2(null_value, bitwidth(T))

\* ir.Constant(ir.IntType(w), v): the bits of the constant
Constant(w, v) == Mod2(v, w)

\* the sentinel of T as the constant nv of the generated code
NullConstant(T) ==
    LET null_value == IF T \notin FloatTypes THEN AsType(null_values(T), T)
                      ELSE null_values(T)
    IN  Constant(bitwidth(T), null_value)

\* compares the element's bits with the reinterpreted number, not its bits
omnisci_array_is_null_Raw(T, elem) == elem = AsType(null_values(T), T)

omnisci_array_is_null_(T, elem) ==
    LET nv == NullConstant(T)
    IN  elem = nv

omnisci_buffer_is_null_(k) == Gep(bufs[k].fields, 2)

\* stores the flag into the size field
omnisci_buffer_set_null_WrongField(k) == StoreField(bufs[k].fields, 1, 1)

omnisci_buffer_set_null_(k) == StoreField(bufs[k].fields, 2, 1)

\* the sentinel is stored into the first element, whatever the index
omnisci_array_set_null_FirstRow(k, row_idx) ==
    LET T == bufs[k].type.eltype
        nv == NullConstant(T)
    IN  omnisci_buffer_ptr_setitem_(k, 0, T, nv)

\* the payload memory after set_null(row_idx): setitem of the sentinel, as
\* a value of the element type
omnisci_array_set_null_(k, row_idx) ==
    LET T == bufs[k].type.eltype
        nv == NullConstant(T)
    IN  omnisci_buffer_ptr_setitem_(k, row_idx, T, nv)

(***************************************************************************)
(* The overloads is_null and set_null of BufferPointer: the implementation *)
(* chosen for a call with (row_idx >= 0) or without (row_idx = -1) an      *)
(* index; "None" when the overload returns no implementation.              *)
(***************************************************************************)
is_nonelike(row_idx) == row_idx = -1

omnisci_buffer_is_null(x, row_idx) ==
    IF x = "BufferPointer"
    THEN IF is_nonelike(row_idx) THEN "omnisci_buffer_is_null_"
         ELSE "omnisci_array_is_null_"
    ELSE "None"

\* the branch without an index lacks its return
omnisci_buffer_set_null_NoReturn(x, row_idx) ==
    IF x = "BufferPointer"
    THEN IF is_nonelike(row_idx) THEN "None" ELSE "omnisci_array_set_null_"
    ELSE "None"

omnisci_buffer_set_null(x, row_idx) ==
    IF x = "BufferPointer"
    THEN IF is_nonelike(row_idx) THEN "omnisci_buffer_set_null_"
         ELSE "omnisci_array_set_null_"
    ELSE "None"

HasFlag(k) == Len(bufs[k].fields) > 2

IsNullOp(k, row_idx) ==
    LET impl == omnisci_buffer_is_null(bufs[k].type.cls, row_idx)
        T == bufs[k].type.eltype
    IN  /\ \/ /\ impl = "omnisci_buffer_is_null_"
              /\ HasFlag(k)
              /\ last' = [NoLast EXCEPT !.op = "is_null", !.buf = k, !.variant = impl,
                                        !.res = omnisci_buffer_is_null_(k)]
           \/ /\ impl = "omnisci_array_is_null_"
              /\ row_idx \in Indices(k)
              /\ T \in NullableTypes
              /\ LET x_row == omnisci_buffer_ptr_getitem_(k, row_idx)
                 IN  \E elem \in (IF x_row = Uninit THEN Samples(T) ELSE {x_row}) :
                        last' = [NoLast EXCEPT
                                    !.op = "is_null", !.buf = k, !.variant = impl,
                                    !.index = row_idx, !.value = elem,
                                    !.res = IF omnisci_array_is_null_(T, elem)
                                            THEN 1 ELSE 0]
           \/ /\ impl = "None"
              /\ last' = [NoLast EXCEPT !.op = "is_null", !.buf = k, !.variant = impl,
                                        !.index = row_idx]
        /\ UNCHANGED <<builder_buffers, next_ptr, free_calls, bufs, mem, ndrains,
                       ret_val, emitted, pc, derived>>

SetNullOp(k, row_idx) ==
    LET impl == omnisci_buffer_set_null(bufs[k].type.cls, row_idx)
        T == bufs[k].type.eltype
    IN  /\ \/ /\ impl = "omnisci_buffer_set_null_"
              /\ HasFlag(k)
              /\ bufs' = [bufs EXCEPT ![k].fields = omnisci_buffer_set_null_(k)]
              /\ mem' = mem
           \/ /\ impl = "omnisci_array_set_null_"
              /\ row_idx \in Indices(k)
              /\ T \in NullableTypes
              /\ mem' = omnisci_array_set_null_(k, row_idx)
              /\ bufs' = bufs
           \/ /\ impl = "None"
              /\ UNCHANGED <<bufs, mem>>
        /\ last' = [NoLast EXCEPT !.op = "set_null", !.buf = k, !.variant = impl,
                                  !.index = row_idx]
        /\ UNCHANGED <<builder_buffers, next_ptr, free_calls, ndrains, ret_val, emitted, pc, derived>>

(***************************************************************************)
(* Buffer specification: one builder constructs one buffer of any layout   *)
(* and element count and applies the accessors to it.                      *)
(***************************************************************************)
BufferTypes == {ArrayOf(T) : T \in ElementTypes} \cup {ColumnOf(T) : T \in ElementTypes}

\* the values the buffer specification stores: of the element's own type
Few(T) == {0, 1} \cup (IF T \in NullableTypes THEN {NullConstant(T)} ELSE {})

ConstructB == \E self \in BufferTypes, count \in 0 .. MaxCount :
                 /\ bufs = << >>
                 /\ omnisci_buffer_constructor(1, self, count)

LenB == \E k \in 1 .. Len(bufs), x \in AddressingModes : LenOp(x, k)

GetItemB == \E k \in 1 .. Len(bufs), x \in AddressingModes :
               \E index \in Indices(k) : GetItemOp(x, k, index)

SetItemB == \E k \in 1 .. Len(bufs), x \in AddressingModes :
               \E index \in Indices(k) : \E value \in Few(bufs[k].type.eltype) :
                  SetItemOp(x, k, index, bufs[k].type.eltype, value)

IsNullB == \E k \in 1 .. Len(bufs) : \E row_idx \in {-1} \cup Indices(k) :
              IsNullOp(k, row_idx)

SetNullB == \E k \in 1 .. Len(bufs) : \E row_idx \in {-1} \cup Indices(k) :
               SetNullOp(k, row_idx)

NextBuffer == ConstructB \/ LenB \/ GetItemB \/ SetItemB \/ IsNullB \/ SetNullB

SpecBuffer == Init /\ [][NextBuffer]_vars

(***************************************************************************)
(* Properties of the buffer operations                                     *)
(***************************************************************************)
\* C4 (null flag at construction): the constructor of a layout with the
\* null flag leaves is_null(buffer) = 1 when the requested element count is
\* 0, and is_null(buffer) = 0 when it is greater than 0.
C4_NullFlagAtConstruction ==
    [][\A k \in 1 .. MaxBuffers :
          (Len(bufs) = k - 1 /\ Len(bufs') = k
              /\ HasField(bufs'[k].type.members, "is_null")) =>
             (omnisci_buffer_is_null_(k))' = (IF bufs'[k].count = 0 THEN 1 ELSE 0)]_vars

\* C8 (indexed vs. whole-buffer dispatch): is_null and set_null on a buffer
\* pointer always yield an implementation; without an index it is the
\* whole-buffer one (the result of is_null is the flag field, set_null leaves
\* the flag at 1), with an index it is the per-element one (is_null compares
\* the element with the sentinel, set_null leaves the sentinel in the
\* element).
C8_Dispatch ==
    LET k == last.buf
        T == bufs[k].type.eltype
    IN  /\ last.op = "is_null" =>
              /\ last.variant /= "None"
              /\ last.index = -1 =>
                    /\ last.variant = "omnisci_buffer_is_null_"
                    /\ last.res = bufs[k].fields[3]
              /\ last.index /= -1 =>
                    /\ last.variant = "omnisci_array_is_null_"
                    /\ (last.res = 1) = (last.value = null_values(T))
                    /\ mem[bufs[k].fields[1]][last.index + 1] \in {Uninit, last.value}
        /\ last.op = "set_null" =>
              /\ last.variant /= "None"
              /\ last.index = -1 =>
                    /\ last.variant = "omnisci_buffer_set_null_"
                    /\ bufs[k].fields[3] = 1
              /\ last.index /= -1 =>
                    /\ last.variant = "omnisci_array_set_null_"
                    /\ mem[bufs[k].fields[1]][last.index + 1] = null_values(T)

\* set_null without an index was called on a buffer that has elements
C8_Witness ==
    /\ last.op = "set_null"
    /\ last.index = -1
    /\ last.variant = "omnisci_buffer_set_null_"
    /\ bufs[last.buf].count > 0
    /\ bufs[last.buf].fields[3] = 1

\* C9 (length): len of a buffer, through the pointer and through the loaded
\* struct, is the element count it was constructed with, and the pointer
\* field is the address its construction allocated, whatever setitem and
\* set_null calls have been made since.
C9_LengthStable ==
    /\ \A k \in 1 .. Len(bufs) :
          /\ \A x \in AddressingModes : omnisci_buffer_len(x, k) = bufs[k].count
          /\ bufs[k].fields[1] = k
    /\ last.op = "len" => last.res = bufs[last.buf].count

\* len was taken of a buffer of MaxCount elements after set_null(buffer) and
\* after stores to its first and last element
C9_Witness ==
    /\ last.op = "len"
    /\ last.res = MaxCount
    /\ HasFlag(last.buf)
    /\ bufs[last.buf].fields[3] = 1
    /\ mem[bufs[last.buf].fields[1]][1] /= Uninit
    /\ mem[bufs[last.buf].fields[1]][MaxCount] /= Uninit

\* C10 (layout stability): the layout of every buffer type is the pointer to
\* the element type, then the size, then the extra members in their declared
\* order; the derivation yields the same layout again; and the fields at
\* positions 0 and 1 are the ones the constructor set as ptr and sz.
C10_LayoutStable ==
    \A k \in 1 .. Len(bufs) :
        LET self == bufs[k].self
            M == self.buffer_extra_members
            members == bufs[k].type.members
        IN  /\ Len(members) = 2 + Len(M)
            /\ members[1] = [name |-> "ptr", ty |-> "pointer",
                             pointee |-> self.element_type]
            /\ members[2] = [name |-> "sz", ty |-> "size_t", pointee |-> "none"]
            /\ \A i \in 1 .. Len(M) : members[2 + i].name = M[i].name
            /\ tonumba(self).members = members
            /\ tonumba([self EXCEPT !.pass_by_value = TRUE]).members = members
            /\ Gep(bufs[k].fields, 0) = k
            /\ Gep(bufs[k].fields, 1) = bufs[k].count

\* a buffer with an extra member was constructed with two elements and its
\* length read through the positional accessor
C10_Witness ==
    /\ last.op = "len"
    /\ Len(bufs[last.buf].self.buffer_extra_members) = 1
    /\ bufs[last.buf].count = 2
    /\ last.res = 2

(***************************************************************************)
(* Coercion specification: a one-element buffer of any element type, and   *)
(* stores of values of every type of the element's family, then loads.     *)
(***************************************************************************)
ConstructC == \E T \in ElementTypes :
                 /\ bufs = << >>
                 /\ omnisci_buffer_constructor(1, ColumnOf(T), 1)

SetItemC == \E k \in 1 .. Len(bufs), x \in AddressingModes, nb_value \in ValueTypes :
               \E value \in Samples(nb_value) : SetItemOp(x, k, 0, nb_value, value)

GetItemC == \E k \in 1 .. Len(bufs), x \in AddressingModes : GetItemOp(x, k, 0)

NextCoerce == ConstructC \/ SetItemC \/ GetItemC

SpecCoerce == Init /\ [][NextCoerce]_vars

\* the element at position index of buffer k, as it is in memory
Stored(k, index) == mem[bufs[k].fields[1]][index + 1]

\* C5 (integer coercion): after the store of an integer value of width W1
\* into an integer element of width W2, the element holds the low W2 bits of
\* the value when W2 < W1, the same signed number when W2 > W1 and the
\* source is signed, the same unsigned number when W2 > W1 and the source is
\* unsigned, and the value itself when W1 = W2, whatever the signedness of
\* the element type.
C5_IntegerCoercion ==
    LET k == last.buf
        src == last.nb_value
        dst == bufs[k].type.eltype
        W1 == bitwidth(src)
        W2 == bitwidth(dst)
        v == last.value
        e == Stored(k, last.index)
    IN  (last.op = "setitem" /\ src \in IntTypes /\ dst \in IntTypes) =>
           /\ W2 < W1 => (e < 2 ^ W2 /\ (v - e) % (2 ^ W2) = 0)
           /\ (W2 > W1 /\ signed(src)) =>
                 (e < 2 ^ W2 /\ AsSigned(e, W2) = AsSigned(v, W1))
           /\ (W2 > W1 /\ ~signed(src)) => e = v
           /\ W2 = W1 => e = v

\* the signed 8-bit value -127 was stored into an unsigned 16-bit element
C5_Witness ==
    /\ last.op = "setitem"
    /\ last.nb_value = "int8"
    /\ last.value = 129
    /\ bufs[last.buf].type.eltype = "uint16"
    /\ Stored(last.buf, 0) = 65409

\* the number a float pattern of type T stands for, in units of the
\* narrow format's step
NumberOf(T, pattern) == IF T = "float32" THEN 4 * pattern ELSE pattern

\* what the coercion table gives for a value v of type src stored into an
\* element of type dst of the same kind
Coerced(src, dst, v, e) ==
    LET W1 == bitwidth(src)
        W2 == bitwidth(dst)
    IN  IF W1 = W2 THEN e = v
        ELSE IF src \in IntTypes
        THEN IF W2 < W1 THEN e < 2 ^ W2 /\ (v - e) % (2 ^ W2) = 0
             ELSE IF signed(src) THEN e < 2 ^ W2 /\ AsSigned(e, W2) = AsSigned(v, W1)
             ELSE e = v
        ELSE IF src \in FloatTypes
        THEN IF W2 < W1
             THEN LET d == NumberOf(dst, e) - NumberOf(src, v)
                  IN  d \in -2 .. 2 /\ (d \in {-2, 2} => e % 2 = 0)
             ELSE NumberOf(dst, e) = NumberOf(src, v)
        ELSE IF W2 < W1 THEN e < 2 ^ W2 /\ (v - e) % (2 ^ W2) = 0
             ELSE e = v

SameKind(src, dst) ==
    \/ src \in IntTypes /\ dst \in IntTypes
    \/ src \in FloatTypes /\ dst \in FloatTypes
    \/ src \in BoolTypes /\ dst = "boolean8"

\* C6 (coercion round trip): after set(buf, i, v) with v of the kind of the
\* element, get(buf, i), in either addressing mode, is v truncated or
\* extended as the coercion table says (v itself for equal widths); and a
\* get returns the element as it is in memory.
C6_RoundTrip ==
    LET k == last.buf
        dst == bufs[k].type.eltype
    IN  /\ (last.op = "setitem" /\ SameKind(last.nb_value, dst)) =>
              \A x \in AddressingModes :
                  Coerced(last.nb_value, dst, last.value,
                          omnisci_buffer_getitem(x, k, last.index))
        /\ last.op = "getitem" =>
              Stored(k, last.index) \in {Uninit, last.res}

\* get returned 65409 from a signed 16-bit element: the sign extension of
\* the 8-bit value 129 stored before
C6_Witness ==
    /\ last.op = "getitem"
    /\ bufs[last.buf].type.eltype = "int16"
    /\ last.res = 65409

(***************************************************************************)
(* Sentinel specification: a one-element Array of int8, stores of every    *)
(* byte, and is_null of the element.                                       *)
(***************************************************************************)
ConstructS == /\ bufs = << >>
              /\ omnisci_buffer_constructor(1, ArrayOf("int8"), 1)

SetItemS == \E k \in 1 .. Len(bufs), byte \in 0 .. 255 :
               SetItemOp("BufferPointer", k, 0, "int8", byte)

IsNullS == \E k \in 1 .. Len(bufs) : IsNullOp(k, 0)

NextSentinel == ConstructS \/ SetItemS \/ IsNullS

SpecSentinel == Init /\ [][NextSentinel]_vars

\* C7 (sentinel null detection): with the sentinel 129 configured for int8
\* elements, is_null(buffer, i) is true exactly when the byte of element i is
\* 129, which is the element that reads -127 as a signed 8-bit integer.
C7_SentinelNull ==
    (last.op = "is_null" /\ last.index /= -1
        /\ bufs[last.buf].type.eltype = "int8") =>
       /\ null_values("int8") = 129
       /\ (last.res = 1) = (last.value = 129)
       /\ (last.res = 1) = (AsSigned(last.value, 8) = -127)
       /\ last.res \in {0, 1}
       /\ Stored(last.buf, last.index) \in {Uninit, last.value}

\* is_null found the element null after the byte 129 was stored
C7_Witness ==
    /\ last.op = "is_null"
    /\ last.index = 0
    /\ Stored(last.buf, 0) = 129
    /\ last.res = 1

(***************************************************************************)
(* Interleaving specification: the builders of functions compiled side by  *)
(* side construct buffers and run their exit drains, the drain taken one   *)
(* statement on the registry at a time: the read of builder_buffers        *)
(* [builder] (which inserts the key), the emission of the calls of free,   *)
(* and the del.  pc[builder] is the position of the builder: in the body   *)
(* of its function, or before the emission or the del of its drain.        *)
(***************************************************************************)
DrainEnter(builder, ret) ==
    /\ pc[builder] = "body"
    /\ DrainsTo(NumBuilders) < MaxDrains
    /\ builder_buffers' = Put(builder_buffers, builder, BufList(builder_buffers, builder))
    /\ ret_val' = [ret_val EXCEPT ![builder] = ret]
    /\ pc' = [pc EXCEPT ![builder] = "emit"]
    /\ UNCHANGED <<next_ptr, free_calls, bufs, mem, ndrains, emitted, last, derived>>

DrainEmit(builder) ==
    LET buffers == BufList(builder_buffers, builder)
        calls == ReleaseCalls(buffers, ret_val[builder])
    IN  /\ pc[builder] = "emit"
        /\ free_calls' = Called(free_calls, calls)
        /\ emitted' = [emitted EXCEPT ![builder] = Len(calls)]
        /\ pc' = [pc EXCEPT ![builder] = "del"]
        /\ UNCHANGED <<builder_buffers, next_ptr, bufs, mem, ndrains, ret_val, last,
                       derived>>

\* del of a key that is not there raises KeyError: the drain does not complete
DrainDel(builder) ==
    /\ pc[builder] = "del"
    /\ builder \in DOMAIN builder_buffers
    /\ builder_buffers' = Del(builder_buffers, builder)
    /\ ndrains' = [ndrains EXCEPT ![builder] = @ + 1]
    /\ pc' = [pc EXCEPT ![builder] = "body"]
    /\ ret_val' = [ret_val EXCEPT ![builder] = NoRet]
    /\ emitted' = [emitted EXCEPT ![builder] = 0]
    /\ UNCHANGED <<next_ptr, free_calls, bufs, mem, last, derived>>

ConstructI == \E builder \in Builders :
                 /\ pc[builder] = "body"
                 /\ omnisci_buffer_constructor(builder, ArrayOf("int8"), 1)

EnterI == \E builder \in Builders : \E ret \in Returns(builder) :
             DrainEnter(builder, ret)

EmitI == \E builder \in Builders : DrainEmit(builder)

DelI == \E builder \in Builders : DrainDel(builder)

NextInterleave == ConstructI \/ EnterI \/ EmitI \/ DelI

SpecInterleave == Init /\ [][NextInterleave]_vars

\* the builder whose construction allocated address p
OwnerIn(bs, p) == bs[CHOOSE k \in 1 .. Len(bs) : bs[k].fields[1] = p].builder

\* the number of buffers builder b has constructed
BuiltIn(bs, b) == Cardinality({k \in 1 .. Len(bs) : bs[k].builder = b})

\* the builder that takes the step
Acting(b) == pc'[b] /= pc[b] \/ BuiltIn(bufs', b) /= BuiltIn(bufs, b)

\* C11 (concurrent build contexts): whatever the interleaving of the
\* constructions and the drain steps of distinct builders, every address in
\* a builder's list was recorded by that builder, every address a builder
\* recorded stays in its list until its drain deletes the list, the calls of
\* free a step emits are for addresses of the builder that is emitting, and a
\* step of one builder leaves the entries of the others as they were.
C11_Isolation ==
    [][/\ \A b \in Builders : \A p \in Recorded(builder_buffers', b) :
              OwnerIn(bufs', p) = b
       /\ \A k \in 1 .. Len(bufs') :
              ndrains'[bufs'[k].builder] = 0 =>
                 bufs'[k].fields[1] \in Recorded(builder_buffers', bufs'[k].builder)
       /\ \A p \in 1 .. (next_ptr - 1) :
              CallsIn(free_calls', p) /= CallsIn(free_calls, p) =>
                 /\ pc[OwnerIn(bufs, p)] = "emit"
                 /\ Acting(OwnerIn(bufs, p))
       /\ \A b \in Builders :
              ~Acting(b) =>
                 /\ BufList(builder_buffers', b) = BufList(builder_buffers, b)
                 /\ (b \in DOMAIN builder_buffers') = (b \in DOMAIN builder_buffers)]_vars

\* builders 1 and 2 constructed in turn (1, 2, 1); builder 1 has completed
\* its drain, which released its two addresses, while builder 2 is in the
\* middle of its own drain with its one address still listed
C11_Witness ==
    /\ Len(bufs) = 3
    /\ bufs[1].builder = 1 /\ bufs[2].builder = 2 /\ bufs[3].builder = 1
    /\ ndrains[1] = 1
    /\ emitted[1] = 0
    /\ CallsIn(free_calls, 1) = 1 /\ CallsIn(free_calls, 3) = 1
    /\ pc[2] = "emit"
    /\ BufList(builder_buffers, 2) = <<2>>
    /\ CallsIn(free_calls, 2) = 0

\* the pointer fields of the buffers builder b constructed, in the order of
\* their construction
RECURSIVE PtrsOf(_, _)
PtrsOf(bs, b) ==
    IF bs = << >> THEN << >>
    ELSE LET rest == PtrsOf(SubSeq(bs, 1, Len(bs) - 1), b)
             r == bs[Len(bs)]
         IN  IF r.builder = b THEN Append(rest, r.fields[1]) ELSE rest

\* C13 (tracker list mirrors constructions): until its drain deletes it, the
\* list of a builder holds the pointer fields of the buffers the builder
\* constructed, one per construction and in construction order; the k-th
\* construction made the k-th call of allocate, for as many elements as were
\* requested, and its buffer points to the address that call returned.
C13_ListMirrors ==
    /\ \A b \in Builders :
          ndrains[b] = 0 =>
             /\ BufList(builder_buffers, b) = PtrsOf(bufs, b)
             /\ Len(BufList(builder_buffers, b)) = BuiltIn(bufs, b)
    /\ next_ptr - 1 = Len(bufs)
    /\ DOMAIN mem = 1 .. Len(bufs)
    /\ \A k \in 1 .. Len(bufs) :
          /\ bufs[k].fields[1] = k
          /\ Len(mem[k]) = bufs[k].count

\* builder 1 has constructed two buffers, with a construction of builder 2
\* in between, and has not been drained: its list is its two addresses in
\* order
C13_Witness ==
    /\ Len(bufs) = 3
    /\ BuiltIn(bufs, 1) = 2
    /\ BuiltIn(bufs, 2) = 1
    /\ bufs[2].builder = 2
    /\ ndrains[1] = 0
    /\ pc[1] = "body"
    /\ BufList(builder_buffers, 1) = PtrsOf(bufs, 1)
    /\ BufList(builder_buffers, 1) = <<1, 3>>

(***************************************************************************)
(* Creation of a buffer type.  args is the element-type specification: a   *)
(* sequence of argument groups, each a sequence of element objects; an     *)
(* element object is [obj, ty], a Type instance or a string naming one.    *)
(***************************************************************************)
ElementObjects == {[obj |-> "Type", ty |-> "int8"],
                   [obj |-> "str", ty |-> "int32"],
                   [obj |-> "Type", ty |-> "float64"]}

Groups == UNION {[1 .. n -> ElementObjects] : n \in 0 .. MaxArity}

ArgLists == UNION {[1 .. n -> Groups] : n \in 0 .. MaxArity}

\* the second assert is missing: the first element of the group is taken
preprocess_args_NoInnerCheck(args) ==
    IF Len(args) /= 1
    THEN [error |-> "AssertionError", type |-> << >>]
    ELSE IF Len(args[1]) = 0
    THEN [error |-> "IndexError", type |-> << >>]
    ELSE LET element_type == args[1][1]
         IN  [error |-> "none",
              type |-> << <<IF element_type.obj = "Type"
                            THEN element_type
                            ELSE [obj |-> "Type", ty |-> element_type.ty]>> >>]

preprocess_args(args) ==
    IF Len(args) /= 1
    THEN [error |-> "AssertionError", type |-> << >>]
    ELSE IF Len(args[1]) /= 1
    THEN [error |-> "AssertionError", type |-> << >>]
    ELSE LET element_type == args[1][1]
         IN  [error |-> "none",
              type |-> << <<IF element_type.obj = "Type"
                            THEN element_type
                            ELSE [obj |-> "Type", ty |-> element_type.ty]>> >>]

ExtraMembers == {ArrayOf("int8").buffer_extra_members,
                 ColumnOf("int8").buffer_extra_members}

\* a buffer type is created from args; a failed assert leaves no type
CreateType(args, extra, pbv) ==
    LET r == preprocess_args(args)
    IN  /\ derived = NoType
        /\ derived' = [args |-> args, type |-> r.type, extra |-> extra,
                       pbv |-> pbv, error |-> r.error, layout |-> << >>]
        /\ UNCHANGED <<builder_buffers, next_ptr, free_calls, bufs, mem, ndrains,
                       ret_val, emitted, last, pc>>

\* the layout of the created type is derived
ToNumba ==
    /\ derived.error = "none"
    /\ derived.layout = << >>
    /\ derived' = [derived EXCEPT !.layout =
                      <<tonumba([element_type |-> derived.type[1][1].ty,
                                 buffer_extra_members |-> derived.extra,
                                 pass_by_value |-> derived.pbv])>>]
    /\ UNCHANGED <<builder_buffers, next_ptr, free_calls, bufs, mem, ndrains,
                   ret_val, emitted, last, pc>>

CreateL == /\ derived = NoType
           /\ \E args \in ArgLists : \E extra \in ExtraMembers : \E pbv \in BOOLEAN :
                 CreateType(args, extra, pbv)

NextLayout == CreateL \/ ToNumba

SpecLayout == Init /\ [][NextLayout]_vars

WellFormed(args) == Len(args) = 1 /\ Len(args[1]) = 1

\* C12 (malformed element type is rejected): the creation of a buffer type
\* from a specification that is not exactly one group of exactly one element
\* type fails with an error and no layout is ever derived from it; the
\* creation from a well-formed specification does not fail, and its layout
\* has the element type of the specification.
C12_MalformedRejected ==
    derived /= NoType =>
       IF WellFormed(derived.args)
       THEN /\ derived.error = "none"
            /\ derived.type[1][1].obj = "Type"
            /\ derived.type[1][1].ty = derived.args[1][1].ty
            /\ \A i \in 1 .. Len(derived.layout) :
                  derived.layout[i].eltype = derived.args[1][1].ty
       ELSE /\ derived.error = "AssertionError"
            /\ derived.type = << >>
            /\ derived.layout = << >>

\* one group of two element types was given and rejected
C12_Witness ==
    /\ Len(derived.args) = 1
    /\ Len(derived.args[1]) = 2
    /\ derived.error = "AssertionError"
    /\ derived.layout = << >>

\* C14 (set-null / is-null round trip): set_null(i) on a buffer whose element
\* type has a sentinel leaves an element i that is_null(i) reports as null, and
\* changes no other element and no field of the buffer (size and null flag
\* included); set_null() leaves a null flag that is_null() reports as set, and
\* changes no element, pointer or size; an is_null that follows the set_null
\* of the same target returns true.
C14_SetNullRoundTrip ==
    [][ \A k \in 1 .. MaxBuffers : \A i \in 0 .. (MaxCount - 1) :
           /\ ( /\ last'.op = "set_null"
                /\ last'.buf = k
                /\ last'.variant = "omnisci_array_set_null_"
                /\ last'.index = i )
              => /\ bufs' = bufs
                 /\ omnisci_buffer_is_null(bufs[k].type.cls, i) = "omnisci_array_is_null_"
                 /\ omnisci_array_is_null_(bufs[k].type.eltype, (Stored(k, i))')
                 /\ \A j \in Indices(k) : j /= i => (Stored(k, j))' = Stored(k, j)
           /\ ( /\ last'.op = "set_null"
                /\ last'.buf = k
                /\ last'.variant = "omnisci_buffer_set_null_" )
              => /\ mem' = mem
                 /\ omnisci_buffer_is_null(bufs[k].type.cls, -1) = "omnisci_buffer_is_null_"
                 /\ (omnisci_buffer_is_null_(k))' = 1
                 /\ (Gep(bufs[k].fields, 0))' = Gep(bufs[k].fields, 0)
                 /\ (Gep(bufs[k].fields, 1))' = Gep(bufs[k].fields, 1)
                 /\ bufs'[k].type = bufs[k].type
           /\ ( /\ last.op = "set_null"
                /\ last'.op = "is_null"
                /\ last.buf = k
                /\ last'.buf = k
                /\ \/ /\ last.variant = "omnisci_array_set_null_"
                      /\ last'.variant = "omnisci_array_is_null_"
                      /\ last.index = i
                      /\ last'.index = i
                   \/ /\ last.variant = "omnisci_buffer_set_null_"
                      /\ last'.variant = "omnisci_buffer_is_null_" )
              => last'.res = 1 ]_vars

\* set_null(1) has just acted on an array of two int8 elements whose first
\* element holds a stored 1: the second element is the sentinel, the first
\* is still 1, and the null flag is as the constructor left it
C14_Witness ==
    /\ last.op = "set_null"
    /\ last.variant = "omnisci_array_set_null_"
    /\ last.index = 1
    /\ bufs[last.buf].type.eltype = "int8"
    /\ HasFlag(last.buf)
    /\ Gep(bufs[last.buf].fields, 1) = 2
    /\ Stored(last.buf, 1) = NullConstant("int8")
    /\ Stored(last.buf, 0) = 1
    /\ omnisci_buffer_is_null_(last.buf) = 0

====
